---------------------------- MODULE Spec2Model ----------------------------
(***************************************************************************)
(* A model of src/predict.py: the Predictor of an SDXL text-to-image       *)
(* service.  One process runs setup once and then serves requests one at   *)
(* a time; a request resolves the resolution, encodes the prompts, calls   *)
(* the diffusion pipeline, writes one file per returned image and uploads  *)
(* the files to the bucket, returning one presigned URL per file that was  *)
(* uploaded.                                                               *)
(*                                                                         *)
(* The text encoder (compel), the diffusion pipeline (diffusers), the      *)
(* object store (boto3) and the request validation of the serving runtime  *)
(* (cog) are external: the model keeps what predict.py hands to them and   *)
(* draws what they give back from small sets.  Strings that the code       *)
(* builds character by character (the sqids identifiers) are sequences of  *)
(* character codes.                                                        *)
(***************************************************************************)
EXTENDS Integers, Sequences, FiniteSets, TLC

VARIABLES
    env,               \* names of the environment variables that are set
    pc,                \* position of the process / of the current request
    err,               \* the exception that ended setup or the request
    served,            \* number of requests started so far
    checked,           \* TRUE when the request came through the runtime's validation
    aspect_ratio,      \* predict argument
    num_outputs,       \* predict argument
    output_format,     \* predict argument
    width_height,      \* local "width, height" of predict (None before line 200)
    flux_kwargs,       \* local flux_kwargs of predict
    conditioning,      \* first tensor returned by self.compel
    pooled,            \* second tensor returned by self.compel
    common_args,       \* local common_args of predict
    images,            \* output.images
    current_timestamp, \* local current_timestamp of predict
    i,                 \* loop index of the encoding loop
    output_paths,      \* local output_paths of predict
    saved,             \* files written by image.save during this request
    k,                 \* number of files upload_to_s3 is done with
    presigned_urls,    \* local presigned_urls of upload_to_s3
    outcome,           \* per file, what happened to it in upload_to_s3
    s3_log,            \* calls made on the s3 client during this request
    stages,            \* stages of predict entered during this request
    result             \* value returned by predict

vars == << env, pc, err, served, checked, aspect_ratio, num_outputs,
           output_format, width_height, flux_kwargs, conditioning, pooled,
           common_args, images, current_timestamp, i, output_paths, saved,
           k, presigned_urls, outcome, s3_log, stages, result >>

-----------------------------------------------------------------------------
(* Bounds of the model *)

\* the pipeline returns at most this many images
MaxImages == 3
\* the process serves at most this many requests
MaxRequests == 2

\* Python's None, for the locals that hold a pair, a tensor or a list
None == << >>

-----------------------------------------------------------------------------
(* Environment *)

EnvVars == { "PUBLIC_BUCKET_NAME", "MODEL_PATH", "AWS_ACCESS_KEY_ID",
             "AWS_SECRET_ACCESS_KEY", "AWS_ENDPOINT_URL_S3" }

\* the variables upload_to_s3 reads with os.environ[...]
S3Credentials == { "AWS_ACCESS_KEY_ID", "AWS_SECRET_ACCESS_KEY",
                   "AWS_ENDPOINT_URL_S3" }

\* the environments of the model: everything set, or one variable missing
Environments == { EnvVars } \cup { EnvVars \ {v} : v \in EnvVars }

\* module global PUBLIC_BUCKET_NAME = os.getenv("PUBLIC_BUCKET_NAME")
PUBLIC_BUCKET_NAME ==
    IF "PUBLIC_BUCKET_NAME" \in env THEN "public-bucket" ELSE "None"

-----------------------------------------------------------------------------
(* Resolution *)

\* the dict literal of aspect_ratio_to_width_height
aspect_ratios ==
    [ r \in { "1:1", "16:9", "21:9", "3:2", "2:3", "4:3", "3:4", "4:5",
              "5:4", "9:16", "9:21" } |->
        CASE r = "1:1"  -> << 1024, 1024 >>
          [] r = "16:9" -> << 1344 + 64, 768 + 64 >>
          [] r = "21:9" -> << 1536, 640 >>
          [] r = "3:2"  -> << 1216, 832 >>
          [] r = "2:3"  -> << 832, 1216 >>
          [] r = "4:3"  -> << 800, 600 >>
          [] r = "3:4"  -> << 600, 800 >>
          [] r = "4:5"  -> << 896, 1088 >>
          [] r = "5:4"  -> << 1088, 896 >>
          [] r = "9:16" -> << 768, 1344 >>
          [] r = "9:21" -> << 640, 1536 >> ]

\* a mutant of aspect_ratio_to_width_height: a default pair for an unknown key
aspect_ratio_to_width_height_default(key) ==
    IF key \in DOMAIN aspect_ratios THEN aspect_ratios[key]
    ELSE << 1024, 1024 >>

\* aspect_ratios.get(aspect_ratio): the pair, or None for an unknown key
aspect_ratio_to_width_height(key) ==
    IF key \in DOMAIN aspect_ratios THEN aspect_ratios[key] ELSE None

\* int(side * (maximum_dimension / longer)) for positive integers.  The code
\* computes the quotient and the product in double precision; for the sides
\* of the table and maximum_dimension 1024 the truncated product equals the
\* exact floor of side * maximum_dimension / longer.
Scaled(side, longer, maximum_dimension) ==
    (side * maximum_dimension) \div longer

\* a mutant of resize_image_dimensions: the rounding to a multiple of 32 is lost
resize_image_dimensions_unrounded(original_resolution_wh, maximum_dimension) ==
    LET width  == original_resolution_wh[1]
        height == original_resolution_wh[2]
        longer == IF width > height THEN width ELSE height
    IN  << Scaled(width, longer, maximum_dimension),
           Scaled(height, longer, maximum_dimension) >>

resize_image_dimensions(original_resolution_wh, maximum_dimension) ==
    LET width      == original_resolution_wh[1]
        height     == original_resolution_wh[2]
        longer     == IF width > height THEN width ELSE height
        new_width  == Scaled(width, longer, maximum_dimension)
        new_height == Scaled(height, longer, maximum_dimension)
    IN  << new_width - (new_width % 32), new_height - (new_height % 32) >>

\* default of the parameter maximum_dimension
maximum_dimension_default == 1024

-----------------------------------------------------------------------------
(* Request validation, as declared by the Input(...) defaults of predict *)

\* choices of aspect_ratio
aspect_ratio_choices ==
    { "1:1", "16:9", "21:9", "2:3", "3:2", "4:5", "5:4", "9:16", "9:21" }

\* choices of output_format
output_format_choices == { "webp", "jpg", "png" }

\* ge and le of num_outputs
num_outputs_ge == 1
num_outputs_le == 3

Valid(ar, n, fmt) ==
    /\ ar \in aspect_ratio_choices
    /\ n >= num_outputs_ge /\ n <= num_outputs_le
    /\ fmt \in output_format_choices

\* the arguments the model sends: every key of the table, every choice and a
\* key that is in neither; every allowed count and one on each side of the
\* range; a format with the quality flags and the one without
AspectRatioInputs == DOMAIN aspect_ratios \cup aspect_ratio_choices \cup { "7:5" }
NumOutputsInputs  == (num_outputs_ge - 1) .. (num_outputs_le + 1)
FormatInputs      == { "webp", "png" }

-----------------------------------------------------------------------------
(* Prompt conditioning *)

Prompts == { "", "a red bicycle" }
NegativePrompts == { "blurry" }

\* The encoder returns two tensors with one row per input string.  A row is
\* a short vector of integers here; only that different texts give different
\* rows, and that the rows are not zero, matters.
EmbeddingRow(text) ==
    CASE text = ""              -> << 1, -1 >>
      [] text = "a red bicycle" -> << 2, 3 >>
      [] text = "blurry"        -> << -2, 1 >>

PooledRow(text) ==
    CASE text = ""              -> << 1 >>
      [] text = "a red bicycle" -> << 5 >>
      [] text = "blurry"        -> << -3 >>

\* tensor[a:b] on the first dimension
TensorSlice(t, a, b) == SubSeq(t, a + 1, b)

\* tensor * n for an integer n: torch multiplies every element by n and
\* keeps the shape
TensorMul(t, n) ==
    [ r \in DOMAIN t |-> [ c \in DOMAIN t[r] |-> t[r][c] * n ] ]

-----------------------------------------------------------------------------
(* Identifiers: Sqids().encode([current_timestamp, i]) *)

(***************************************************************************)
(* predict builds a Sqids with the library's defaults and encodes the pair *)
(* (timestamp, index).  The operators below follow the library's encoder   *)
(* on sequences of character codes: the default alphabet is shuffled once  *)
(* by the constructor; encode rotates it by an offset computed from the    *)
(* numbers, emits the first character as a prefix, reverses the alphabet   *)
(* and writes each number in the base of the alphabet without its first    *)
(* character, with that first character as the separator and a reshuffle   *)
(* between two numbers.  The library encodes again, with the offset moved  *)
(* on by one, when the identifier contains a word of its blocklist; the    *)
(* list is not part of this model and that step is left out.               *)
(***************************************************************************)

\* "abcdefghijklmnopqrstuvwxyzABCDEFGHIJKLMNOPQRSTUVWXYZ0123456789"
DEFAULT_ALPHABET ==
    << 97, 98, 99, 100, 101, 102, 103, 104, 105, 106, 107, 108, 109,
       110, 111, 112, 113, 114, 115, 116, 117, 118, 119, 120, 121, 122,
       65, 66, 67, 68, 69, 70, 71, 72, 73, 74, 75, 76, 77,
       78, 79, 80, 81, 82, 83, 84, 85, 86, 87, 88, 89, 90,
       48, 49, 50, 51, 52, 53, 54, 55, 56, 57 >>

\* chars[a], chars[b] = chars[b], chars[a] with 0-based a and b
Swap(chars, a, b) ==
    [ chars EXCEPT ![a + 1] = chars[b + 1], ![b + 1] = chars[a + 1] ]

\* one iteration of the loop of the shuffle, with i = a and j = len - 1 - a
ShuffleStep(chars, a) ==
    LET b == Len(chars) - 1 - a
        r == (a * b + chars[a + 1] + chars[b + 1]) % Len(chars)
    IN  Swap(chars, a, r)

\* the iterations first..last of the loop, in order
RECURSIVE ShuffleSteps(_, _, _)
ShuffleSteps(chars, first, last) ==
    IF first > last THEN chars
    ELSE IF first = last THEN ShuffleStep(chars, first)
    ELSE LET middle == (first + last) \div 2
             done   == ShuffleSteps(chars, first, middle)
         IN  IF Len(done) = Len(chars)
             THEN ShuffleSteps(done, middle + 1, last)
             ELSE done

\* the loop runs for i = 0, 1, ... while j = len - 1 - i > 0
Shuffle(alphabet) == ShuffleSteps(alphabet, 0, Len(alphabet) - 2)

\* the alphabet a Sqids() keeps
SqidsAlphabet == Shuffle(DEFAULT_ALPHABET)

\* alphabet[::-1]
RECURSIVE Reverse(_)
Reverse(s) ==
    IF Len(s) <= 1 THEN s
    ELSE LET half == Len(s) \div 2
         IN  Reverse(SubSeq(s, half + 1, Len(s))) \o Reverse(SubSeq(s, 1, half))

RECURSIVE ToId(_, _)
ToId(num, chars) ==
    LET digit == << chars[(num % Len(chars)) + 1] >>
        rest  == num \div Len(chars)
    IN  IF rest = 0 THEN digit ELSE ToId(rest, chars) \o digit

RECURSIVE OffsetSum(_, _)
OffsetSum(numbers, n) ==
    IF n > Len(numbers) THEN 0
    ELSE SqidsAlphabet[(numbers[n] % Len(SqidsAlphabet)) + 1] + (n - 1)
         + OffsetSum(numbers, n + 1)

RECURSIVE EncodeFrom(_, _, _)
EncodeFrom(numbers, n, alphabet) ==
    LET id == ToId(numbers[n], Tail(alphabet))
    IN  IF n >= Len(numbers) THEN id
        ELSE id \o << alphabet[1] >>
                \o EncodeFrom(numbers, n + 1, Shuffle(alphabet))

SqidsEncode(numbers) ==
    IF numbers = << >> THEN << >>
    ELSE LET size     == Len(SqidsAlphabet)
             offset   == (OffsetSum(numbers, 1) + Len(numbers)) % size
             rotated  == SubSeq(SqidsAlphabet, offset + 1, size)
                         \o SubSeq(SqidsAlphabet, 1, offset)
         IN  << rotated[1] >> \o EncodeFrom(numbers, 1, Reverse(rotated))

\* a mutant of unique_id: the index is not part of what is encoded
unique_id_without_index(timestamp, index) == SqidsEncode(<< timestamp >>)

\* unique_id = sqids.encode([current_timestamp, i])
unique_id(timestamp, index) == SqidsEncode(<< timestamp, index >>)

\* f"/tmp/out-{unique_id}.{output_format}"
OutputPath(id, fmt) == [ dir |-> "/tmp", id |-> id, ext |-> fmt ]

\* os.path.basename(file_path)
Basename(path) == [ id |-> path.id, ext |-> path.ext ]

\* int(time.time()) at line 228: two consecutive seconds
Timestamps == { 1730000000, 1730000001 }

\* the identifier of every timestamp and index of the model
Identifiers ==
    { << t, x, SqidsEncode(<< t, x >>) >> : t \in Timestamps, x \in 0..MaxImages }

-----------------------------------------------------------------------------
(* Publishing *)

\* default of the parameter expiration of generate_presigned_url
expiration_default == 3600

\* what s3_client.generate_presigned_url answers for a bucket and a key
PresignedUrl(bucket_name, object_name, expiration) ==
    [ bucket |-> bucket_name, key |-> object_name, expires |-> expiration ]

\* one entry of the log of calls on the s3 client
S3Call(op, index, key) == [ op |-> op, file |-> index, key |-> key ]

-----------------------------------------------------------------------------
(* The state machine *)

NoArgs == [ prompt_embeds |-> None, negative_prompt_embeds |-> None,
            pooled_prompt_embeds |-> None,
            negative_pooled_prompt_embeds |-> None ]

\* the state of a request that has not started
RequestCleared ==
    /\ width_height = None
    /\ flux_kwargs = None
    /\ conditioning = None
    /\ pooled = None
    /\ common_args = NoArgs
    /\ images = None
    /\ current_timestamp = 0
    /\ i = 0
    /\ output_paths = << >>
    /\ saved = {}
    /\ k = 0
    /\ presigned_urls = << >>
    /\ outcome = << >>
    /\ s3_log = << >>
    /\ stages = << >>
    /\ result = None

Init ==
    /\ env \in Environments
    /\ pc = "start"
    /\ err = ""
    /\ served = 0
    /\ checked = FALSE
    /\ aspect_ratio = ""
    /\ num_outputs = 0
    /\ output_format = ""
    /\ RequestCleared

\* raise: the request (or setup) ends with the exception e
Raise(e) == pc' = "failed" /\ err' = e

(* ---- Predictor.setup ---- *)

\* line 104: the assertion on PUBLIC_BUCKET_NAME fails
SetupAssertFails ==
    /\ pc = "start"
    /\ "PUBLIC_BUCKET_NAME" \notin env
    /\ pc' = "dead"
    /\ err' = "AssertionError"
    /\ UNCHANGED << env, served, checked, aspect_ratio, num_outputs,
                    output_format, width_height, flux_kwargs, conditioning,
                    pooled, common_args, images, current_timestamp, i,
                    output_paths, saved, k, presigned_urls, outcome, s3_log,
                    stages, result >>

\* line 110: FLUX_MODEL_CACHE + os.getenv("MODEL_PATH") with MODEL_PATH unset
SetupModelPathFails ==
    /\ pc = "start"
    /\ "PUBLIC_BUCKET_NAME" \in env
    /\ "MODEL_PATH" \notin env
    /\ pc' = "dead"
    /\ err' = "TypeError"
    /\ UNCHANGED << env, served, checked, aspect_ratio, num_outputs,
                    output_format, width_height, flux_kwargs, conditioning,
                    pooled, common_args, images, current_timestamp, i,
                    output_paths, saved, k, presigned_urls, outcome, s3_log,
                    stages, result >>

\* lines 108-123: the download or the loading of the model raises
SetupLoadFails ==
    /\ pc = "start"
    /\ "PUBLIC_BUCKET_NAME" \in env
    /\ "MODEL_PATH" \in env
    /\ pc' = "dead"
    /\ err' = "LoadError"
    /\ UNCHANGED << env, served, checked, aspect_ratio, num_outputs,
                    output_format, width_height, flux_kwargs, conditioning,
                    pooled, common_args, images, current_timestamp, i,
                    output_paths, saved, k, presigned_urls, outcome, s3_log,
                    stages, result >>

\* lines 104-125: setup returns; the credentials of the object store are not
\* read here
SetupDone ==
    /\ pc = "start"
    /\ "PUBLIC_BUCKET_NAME" \in env
    /\ "MODEL_PATH" \in env
    /\ pc' = "idle"
    /\ UNCHANGED << env, err, served, checked, aspect_ratio, num_outputs,
                    output_format, width_height, flux_kwargs, conditioning,
                    pooled, common_args, images, current_timestamp, i,
                    output_paths, saved, k, presigned_urls, outcome, s3_log,
                    stages, result >>

(* ---- a request arrives ---- *)

\* the process is set up and waits for a request
CanServe ==
    /\ pc = "idle"
    /\ served < MaxRequests

\* the locals of the previous call are gone
ClearRequest ==
    /\ width_height' = None
    /\ flux_kwargs' = None
    /\ conditioning' = None
    /\ pooled' = None
    /\ common_args' = NoArgs
    /\ images' = None
    /\ current_timestamp' = 0
    /\ i' = 0
    /\ output_paths' = << >>
    /\ saved' = {}
    /\ k' = 0
    /\ presigned_urls' = << >>
    /\ outcome' = << >>
    /\ s3_log' = << >>
    /\ stages' = << >>
    /\ result' = None

NewRequest(ar, n, fmt) ==
    /\ served' = served + 1
    /\ aspect_ratio' = ar
    /\ num_outputs' = n
    /\ output_format' = fmt
    /\ UNCHANGED << env, width_height, flux_kwargs, conditioning, pooled,
                    common_args, images, current_timestamp, i, output_paths,
                    saved, k, presigned_urls, outcome, s3_log, stages,
                    result >>

\* a request through the serving runtime, which checks the arguments against
\* the Input(...) declarations before it calls predict
Request ==
    /\ CanServe
    /\ \E ar \in AspectRatioInputs, n \in NumOutputsInputs, fmt \in FormatInputs :
          /\ NewRequest(ar, n, fmt)
          /\ checked' = TRUE
          /\ IF Valid(ar, n, fmt)
             THEN pc' = "resolve" /\ err' = ""
             ELSE Raise("ValidationError")

\* predict called as a method: the Input(...) declarations check nothing
DirectCall ==
    /\ CanServe
    /\ \E ar \in AspectRatioInputs, n \in NumOutputsInputs, fmt \in FormatInputs :
          NewRequest(ar, n, fmt)
    /\ checked' = FALSE
    /\ pc' = "resolve"
    /\ err' = ""

(* ---- Predictor.predict ---- *)

\* groups of variables, for the UNCHANGED clauses
process   == << env, served, checked, num_outputs, output_format >>
resolving == << width_height, flux_kwargs >>
encoding  == << conditioning, pooled, common_args >>
writing   == << current_timestamp, i, output_paths, saved >>
uploading == << k, presigned_urls, outcome, s3_log, result >>

\* line 200, the lookup gives None and the unpacking of None raises
ResolveRaises ==
    /\ pc = "resolve"
    /\ aspect_ratio_to_width_height(aspect_ratio) = None
    /\ stages' = Append(stages, "resolve")
    /\ Raise("TypeError")
    /\ UNCHANGED << process, aspect_ratio, resolving, encoding, images,
                    writing, uploading >>

\* line 200: width, height = self.aspect_ratio_to_width_height(aspect_ratio)
Resolve ==
    /\ pc = "resolve"
    /\ aspect_ratio_to_width_height(aspect_ratio) # None
    /\ width_height' = aspect_ratio_to_width_height(aspect_ratio)
    /\ stages' = Append(stages, "resolve")
    /\ pc' = "resize"
    /\ UNCHANGED << process, aspect_ratio, err, flux_kwargs, encoding, images,
                    writing, uploading >>

\* lines 202-207: the pair is resized and put into flux_kwargs
Resize ==
    /\ pc = "resize"
    /\ width_height' = resize_image_dimensions(width_height,
                                               maximum_dimension_default)
    /\ flux_kwargs' = width_height'
    /\ pc' = "compel"
    /\ UNCHANGED << process, aspect_ratio, err, encoding, images, writing,
                    uploading, stages >>

\* lines 209-211: conditioning, pooled = self.compel([prompt, negative_prompt])
Compel ==
    /\ pc = "compel"
    /\ \E prompt \in Prompts, negative_prompt \in NegativePrompts :
          /\ conditioning' = << EmbeddingRow(prompt),
                                EmbeddingRow(negative_prompt) >>
          /\ pooled' = << PooledRow(prompt), PooledRow(negative_prompt) >>
    /\ stages' = Append(stages, "compel")
    /\ pc' = "args"
    /\ UNCHANGED << process, aspect_ratio, err, resolving, common_args,
                    images, writing, uploading >>

\* line 211: the encoder raises
CompelRaises ==
    /\ pc = "compel"
    /\ stages' = Append(stages, "compel")
    /\ Raise("EncoderError")
    /\ UNCHANGED << process, aspect_ratio, resolving, encoding, images,
                    writing, uploading >>

\* lines 213-222: the four conditioning values of common_args
PrepareArgs ==
    /\ pc = "args"
    /\ common_args' =
          [ prompt_embeds |->
                TensorMul(TensorSlice(conditioning, 0, 1), num_outputs),
            negative_prompt_embeds |->
                TensorMul(TensorSlice(conditioning, 1, 2), num_outputs),
            pooled_prompt_embeds |->
                TensorMul(TensorSlice(pooled, 0, 1), num_outputs),
            negative_pooled_prompt_embeds |->
                TensorMul(TensorSlice(pooled, 1, 2), num_outputs) ]
    /\ pc' = "pipe"
    /\ UNCHANGED << process, aspect_ratio, err, resolving, conditioning,
                    pooled, images, writing, uploading, stages >>

\* the locals predict does not read after line 224 are forgotten there
ForgetInputs ==
    /\ aspect_ratio' = ""
    /\ width_height' = None
    /\ flux_kwargs' = None
    /\ conditioning' = None
    /\ pooled' = None
    /\ common_args' = NoArgs

\* line 224: output = pipe(**common_args, **flux_kwargs).  The pipeline is
\* opaque: it returns some number of images; predict does not compare the
\* number with num_outputs.  Image j of the output is the value j.
Pipe ==
    /\ pc = "pipe"
    /\ \E n \in 0..MaxImages : images' = [ j \in 1..n |-> j ]
    /\ stages' = Append(stages, "pipe")
    /\ ForgetInputs
    /\ pc' = "encode_start"
    /\ UNCHANGED << process, err, writing, uploading >>

\* a mutant of PipeRaises: the call is made again after an exception
PipeRetries ==
    /\ pc = "pipe"
    /\ Len(stages) < 5
    /\ stages' = Append(stages, "pipe")
    /\ UNCHANGED << process, aspect_ratio, pc, err, resolving, encoding,
                    images, writing, uploading >>

\* line 224: the pipeline raises and the exception leaves predict
PipeRaises ==
    /\ pc = "pipe"
    /\ stages' = Append(stages, "pipe")
    /\ Raise("EngineError")
    /\ UNCHANGED << process, aspect_ratio, resolving, encoding, images,
                    writing, uploading >>

\* lines 226-228: the list, the encoder of identifiers and the timestamp,
\* read once for the batch
StartEncode ==
    /\ pc = "encode_start"
    /\ output_paths' = << >>
    /\ current_timestamp' \in Timestamps
    /\ i' = 0
    /\ stages' = Append(stages, "encode")
    /\ pc' = "encode"
    /\ UNCHANGED << process, aspect_ratio, err, resolving, encoding, images,
                    saved, uploading >>

\* lines 230-237, one iteration: image i is saved under its path
EncodeOne ==
    /\ pc = "encode"
    /\ i < Len(images)
    /\ LET output_path == OutputPath(unique_id(current_timestamp, i),
                                     output_format)
       IN  /\ saved' = { f \in saved : f.path # output_path }
                       \cup { [ path |-> output_path, image |-> images[i + 1],
                                quality |-> output_format # "png" ] }
           /\ output_paths' = Append(output_paths, output_path)
    /\ i' = i + 1
    /\ UNCHANGED << process, aspect_ratio, pc, err, resolving, encoding,
                    images, current_timestamp, uploading, stages >>

\* lines 234/236: image.save raises
SaveRaises ==
    /\ pc = "encode"
    /\ i < Len(images)
    /\ Raise("OSError")
    /\ UNCHANGED << process, aspect_ratio, resolving, encoding, images,
                    writing, uploading, stages >>

\* a mutant of NoOutput: the check of line 239 is gone
NoOutputNever(paths) == FALSE

\* line 239: len(output_paths) == 0
NoOutput(paths) == Len(paths) = 0

\* lines 239-242: the loop is over and nothing was written
RaiseEmpty ==
    /\ pc = "encode"
    /\ i = Len(images)
    /\ NoOutput(output_paths)
    /\ Raise("Exception")
    /\ UNCHANGED << process, aspect_ratio, resolving, encoding, images,
                    writing, uploading, stages >>

(* ---- upload_to_s3, called at line 244 ---- *)

\* lines 31-37: boto3.client(...) reads os.environ[...] for each credential
CredentialsSet == S3Credentials \subseteq env

\* line 244 and lines 31-37: a credential is not set and os.environ raises
UploadClientRaises ==
    /\ pc = "encode"
    /\ i = Len(images)
    /\ ~ NoOutput(output_paths)
    /\ ~ CredentialsSet
    /\ stages' = Append(stages, "upload")
    /\ Raise("KeyError")
    /\ UNCHANGED << process, aspect_ratio, resolving, encoding, images,
                    writing, uploading >>

\* line 244 and lines 31-39: the client is built and the list is empty
UploadBegin ==
    /\ pc = "encode"
    /\ i = Len(images)
    /\ ~ NoOutput(output_paths)
    /\ CredentialsSet
    /\ presigned_urls' = << >>
    /\ k' = 0
    /\ stages' = Append(stages, "upload")
    /\ pc' = "upload"
    /\ UNCHANGED << process, aspect_ratio, err, resolving, encoding, images,
                    writing, outcome, s3_log, result >>

\* the file the loop of line 41 is at, and its key (lines 42-43)
file_path == output_paths[k + 1]
s3_key == Basename(file_path)

\* a mutant of UploadFileRaises: the exception is not caught and the rest of
\* the batch is not attempted
UploadFileRaisesAborts ==
    /\ pc = "upload"
    /\ k < Len(output_paths)
    /\ s3_log' = Append(s3_log, S3Call("upload_file", k + 1, s3_key))
    /\ outcome' = Append(outcome, "upload_failed")
    /\ k' = Len(output_paths)
    /\ UNCHANGED << process, aspect_ratio, pc, err, resolving, encoding,
                    images, writing, presigned_urls, result, stages >>

\* lines 46 and 52-53: upload_file raises, the exception is printed and the
\* loop goes on with the next file
UploadFileRaises ==
    /\ pc = "upload"
    /\ k < Len(output_paths)
    /\ s3_log' = Append(s3_log, S3Call("upload_file", k + 1, s3_key))
    /\ outcome' = Append(outcome, "upload_failed")
    /\ k' = k + 1
    /\ UNCHANGED << process, aspect_ratio, pc, err, resolving, encoding,
                    images, writing, presigned_urls, result, stages >>

\* lines 46-47: the file is in the bucket
UploadFile ==
    /\ pc = "upload"
    /\ k < Len(output_paths)
    /\ s3_log' = Append(s3_log, S3Call("upload_file", k + 1, s3_key))
    /\ pc' = "presign"
    /\ UNCHANGED << process, aspect_ratio, err, resolving, encoding, images,
                    writing, k, presigned_urls, outcome, result, stages >>

\* lines 49-51 and 58-77: the url is generated and appended
Presign ==
    /\ pc = "presign"
    /\ s3_log' = Append(s3_log,
                        S3Call("generate_presigned_url", k + 1, s3_key))
    /\ presigned_urls' =
          Append(presigned_urls,
                 PresignedUrl(PUBLIC_BUCKET_NAME, s3_key, expiration_default))
    /\ outcome' = Append(outcome, "ok")
    /\ k' = k + 1
    /\ pc' = "upload"
    /\ UNCHANGED << process, aspect_ratio, err, resolving, encoding, images,
                    writing, result, stages >>

\* lines 67-75 and 50: generating the url raises, generate_presigned_url
\* returns None and nothing is appended
PresignRaises ==
    /\ pc = "presign"
    /\ s3_log' = Append(s3_log,
                        S3Call("generate_presigned_url", k + 1, s3_key))
    /\ outcome' = Append(outcome, "presign_failed")
    /\ k' = k + 1
    /\ pc' = "upload"
    /\ UNCHANGED << process, aspect_ratio, err, resolving, encoding, images,
                    writing, presigned_urls, result, stages >>

\* line 55 and line 244: the list of urls is the result of predict
UploadReturn ==
    /\ pc = "upload"
    /\ k = Len(output_paths)
    /\ result' = presigned_urls
    /\ pc' = "returned"
    /\ UNCHANGED << process, aspect_ratio, err, resolving, encoding, images,
                    writing, k, presigned_urls, outcome, s3_log, stages >>

\* the call of predict is over, with a result or with an exception; the
\* process waits for the next request
Finish ==
    /\ pc \in { "returned", "failed" }
    /\ pc' = "idle"
    /\ err' = ""
    /\ checked' = FALSE
    /\ aspect_ratio' = ""
    /\ num_outputs' = 0
    /\ output_format' = ""
    /\ ClearRequest
    /\ UNCHANGED << env, served >>

-----------------------------------------------------------------------------

Next ==
    \/ SetupAssertFails
    \/ SetupModelPathFails
    \/ SetupLoadFails
    \/ SetupDone
    \/ Request
    \/ DirectCall
    \/ ResolveRaises
    \/ Resolve
    \/ Resize
    \/ Compel
    \/ CompelRaises
    \/ PrepareArgs
    \/ Pipe
    \/ PipeRaises
    \/ StartEncode
    \/ EncodeOne
    \/ SaveRaises
    \/ RaiseEmpty
    \/ UploadClientRaises
    \/ UploadBegin
    \/ UploadFileRaises
    \/ UploadFile
    \/ Presign
    \/ PresignRaises
    \/ UploadReturn
    \/ Finish

Spec == Init /\ [][Next]_vars

-----------------------------------------------------------------------------
(* Properties *)

Range(s) == { s[n] : n \in DOMAIN s }

IsPrefix(s, t) == Len(s) <= Len(t) /\ s = SubSeq(t, 1, Len(s))

\* n copies of a row, as a tensor with n rows
Replicate(row, n) == [ j \in 1..n |-> row ]

\* the request has entered the stage
Entered(stage) == stage \in Range(stages)

\* C1: a request with num_outputs = N in 1..3 that completes has handed
\* exactly N artifact paths to upload_to_s3; otherwise it failed.
C1_ExactlyNOrFail ==
    (pc = "returned" /\ num_outputs \in 1..3)
        => Len(output_paths) = num_outputs

\* C2: for num_outputs = N in 1..3 each of the four conditioning values
\* handed to the pipeline is N copies of row 0 (prompt) respectively row 1
\* (negative prompt) of the encoder output, the rows unchanged.
C2_ConditioningBatchOfN ==
    (pc = "pipe" /\ num_outputs \in 1..3)
        => /\ common_args.prompt_embeds
                = Replicate(conditioning[1], num_outputs)
           /\ common_args.negative_prompt_embeds
                = Replicate(conditioning[2], num_outputs)
           /\ common_args.pooled_prompt_embeds
                = Replicate(pooled[1], num_outputs)
           /\ common_args.negative_pooled_prompt_embeds
                = Replicate(pooled[2], num_outputs)

\* C3: the table has 11 keys, and for each of them the pair put into
\* flux_kwargs (lookup, then resize with maximum dimension 1024) has a
\* positive width and height, both divisible by 32 and at most 1024.
C3_ResolvedPair ==
    /\ Cardinality(DOMAIN aspect_ratios) = 11
    /\ (pc = "compel" /\ aspect_ratio \in DOMAIN aspect_ratios)
          => /\ Len(flux_kwargs) = 2
             /\ \A d \in 1..2 :
                   /\ flux_kwargs[d] > 0
                   /\ flux_kwargs[d] % 32 = 0
                   /\ flux_kwargs[d] <= 1024

C3_Witness ==
    /\ pc = "compel"
    /\ aspect_ratio = "16:9"
    /\ flux_kwargs = << 1024, 576 >>

\* C4: for a key that is not in the table the lookup gives no pair, the
\* request ends in an error at the resolution step, and the pipeline is
\* not called.
C4_UnknownKeyFails ==
    (aspect_ratio # "" /\ aspect_ratio \notin DOMAIN aspect_ratios)
        => /\ width_height = None
           /\ flux_kwargs = None
           /\ ~ Entered("pipe")
           /\ pc \in { "resolve", "failed" }
           /\ Entered("resolve") => (pc = "failed" /\ err = "TypeError")

C4_Witness ==
    /\ aspect_ratio = "7:5"
    /\ stages = << "resolve" >>
    /\ pc = "failed"
    /\ err = "TypeError"
    /\ width_height = None

\* the urls of the files among the first n that were uploaded and presigned
RECURSIVE UrlsOfPublished(_)
UrlsOfPublished(n) ==
    IF n = 0 THEN << >>
    ELSE UrlsOfPublished(n - 1)
         \o ( IF outcome[n] = "ok"
              THEN << PresignedUrl(PUBLIC_BUCKET_NAME,
                                   Basename(output_paths[n]),
                                   expiration_default) >>
              ELSE << >> )

\* C5: in upload_to_s3 a failure for one file does not end the batch: every
\* file is attempted, in order, and the list returned holds, in file order,
\* one url for each file that was uploaded and presigned and nothing else.
C5_UploadBestEffort ==
    (pc \in { "upload", "presign", "returned" })
        => /\ k <= Len(output_paths)
           /\ Len(outcome) = k
           /\ \A n \in 1..k :
                 \E p \in DOMAIN s3_log :
                    /\ s3_log[p].op = "upload_file"
                    /\ s3_log[p].file = n
           /\ presigned_urls = UrlsOfPublished(k)
           /\ pc = "returned"
                 => /\ k = Len(output_paths)
                    /\ result = presigned_urls
                    /\ Len(result) <= Len(output_paths)

C5_Witness ==
    /\ pc = "returned"
    /\ outcome = << "upload_failed", "ok", "presign_failed" >>
    /\ Len(result) = 1
    /\ result[1].key = Basename(output_paths[2])

\* C6: when the pipeline returns no image, predict ends with the explicit
\* exception; it does not return, and upload_to_s3 is not called.
C6_EmptyOutputIsAnError ==
    (Entered("pipe") /\ err # "EngineError" /\ images = << >>)
        => /\ pc \in { "encode_start", "encode", "failed" }
           /\ pc = "failed" => err = "Exception"
           /\ ~ Entered("upload")
           /\ s3_log = << >>
           /\ result = None

C6_Witness ==
    /\ pc = "failed"
    /\ err = "Exception"
    /\ images = << >>
    /\ stages = << "resolve", "compel", "pipe", "encode" >>

\* C7: when the bucket name or one of the credentials of the object store
\* is not set, setup fails and no request reaches the pipeline or the
\* upload.
C7_ConfigErrorFatalAtStartup ==
    ~ (({ "PUBLIC_BUCKET_NAME" } \cup S3Credentials) \subseteq env)
        => /\ pc \in { "start", "dead" }
           /\ ~ Entered("pipe")
           /\ ~ Entered("upload")

\* C8: the encoding loop writes one path per image, the n-th path holding
\* the n-th image; the identifiers are the encodings of (timestamp, index)
\* with the one timestamp of the batch, they are pairwise distinct, and an
\* identifier of the batch is the encoding of no other (timestamp, index).
C8_OnePathPerImage ==
    Entered("encode")
        => /\ Len(output_paths) = i
           /\ i <= Len(images)
           /\ pc \in { "upload", "presign", "returned" } => i = Len(images)
           /\ \A n \in 1..i :
                 /\ output_paths[n].ext = output_format
                 /\ \E f \in saved :
                       f.path = output_paths[n] /\ f.image = images[n]
                 /\ \A f \in saved :
                       f.path = output_paths[n] => f.image = images[n]
           /\ \A n, m \in 1..i :
                 output_paths[n].id = output_paths[m].id => n = m
           /\ \A n \in 1..i, e \in Identifiers :
                 output_paths[n].id = e[3]
                    <=> (e[1] = current_timestamp /\ e[2] = n - 1)

C8_Witness ==
    /\ pc = "encode"
    /\ Len(images) = 3
    /\ i = 3
    /\ Cardinality({ output_paths[n].id : n \in 1..3 }) = 3

\* C9: the aspect ratios the validation accepts are the 11 keys of the
\* table: a request is rejected for its aspect ratio only if the key is not
\* in the table, and an accepted aspect ratio is a key of the table.
C9_AcceptedAreTheTableKeys ==
    /\ Cardinality(DOMAIN aspect_ratios) = 11
    /\ ( /\ err = "ValidationError"
         /\ num_outputs \in num_outputs_ge..num_outputs_le
         /\ output_format \in output_format_choices )
          => aspect_ratio \notin DOMAIN aspect_ratios
    /\ (checked /\ pc = "resolve") => aspect_ratio \in DOMAIN aspect_ratios

StageOrder == << "resolve", "compel", "pipe", "encode", "upload" >>

\* the calls on the s3 client: the files one after the other in the order
\* of the list, the url of a file right after its upload
S3LogSequential ==
    \A p \in DOMAIN s3_log :
       LET call == s3_log[p]
       IN  /\ call.file \in 1..Len(output_paths)
           /\ call.key = Basename(output_paths[call.file])
           /\ call.op = "upload_file"
                 => IF p = 1 THEN call.file = 1
                    ELSE call.file = s3_log[p - 1].file + 1
           /\ call.op = "generate_presigned_url"
                 => /\ p > 1
                    /\ s3_log[p - 1].op = "upload_file"
                    /\ s3_log[p - 1].file = call.file

C10_Order ==
    /\ IsPrefix(stages, StageOrder)
    /\ Entered("upload")
          => /\ i = Len(images)
             /\ Len(output_paths) = Len(images)
             /\ \A n \in 1..Len(output_paths) :
                   \E f \in saved : f.path = output_paths[n]
    /\ s3_log # << >> => Entered("upload")
    /\ S3LogSequential

\* once a stage has raised, nothing runs until the next request
C10_Step ==
    pc = "failed" => (pc' = "idle" /\ stages' = << >> /\ s3_log' = << >>)

\* C10: the stages of a request run in the order resolve, encode prompts,
\* generate, encode outputs, upload, each at most once; an exception ends
\* the request with no later stage; the upload starts after all files are
\* written; the files are uploaded one at a time in order, each url after
\* its upload.
C10_StagesInOrder == []C10_Order /\ [][C10_Step]_vars

C10_Witness ==
    /\ pc = "returned"
    /\ stages = StageOrder
    /\ Len(s3_log) = 6
    /\ Len(result) = 3

=============================================================================
